---- MODULE Spec2Model ----
(***************************************************************************)
(* Clinical relation extraction: the entity-preserving truncation of      *)
(* data_utils.py and the train / predict orchestration of task.py.        *)
(*                                                                         *)
(* A text is modelled as the list text.split(" ") gives: a non-empty      *)
(* sequence of space-free words ("" is the empty word a double space      *)
(* leaves).  " ".join(ws) followed by split(" ") is then ws itself for    *)
(* every non-empty list ws.                                                *)
(***************************************************************************)
EXTENDS Integers, Sequences, FiniteSets, TLC

VARIABLES
    pc,                 \* position of the operation under check
    \* ---- data processors (data_utils.py) ----
    data_format_mode,   \* args.data_format_mode: 0 = Sep processor, 1 = Uni processor
    line1, line2,       \* line[1], line[2] of the tsv row
    text_a, text_b,     \* the texts being truncated (text_b = <<>> stands for None)
    max_seq_len,        \* DataProcessor.max_seq_len
    \* ---- TaskRunner construction and train() (task.py) ----
    cli_fp16,           \* args.fp16 as given on the command line
    torch_ge_160,       \* version.parse(torch.__version__) >= version.parse("1.6.0")
    apex_installed,     \* "from apex import amp" succeeds
    fp16,               \* args.fp16, which _load_amp_for_fp16 may reset
    use_amp_from,       \* _use_amp_for_fp16_from (-1: attribute not set)
    gradient_accumulation_steps, num_train_epochs,
    batch_total_step,   \* len(train_data_loader)
    epoch, step,        \* the two loop counters of train()
    grad,               \* the .grad buffer of the model's parameters
    param,              \* the model's parameters
    applied,            \* the gradient the latest optimizer step consumed
    sched_steps,        \* number of scheduler.step() calls
    do_warmup,          \* args.do_warmup
    window,             \* history: scaled gradients back-propagated since the
                        \* optimizer update before the latest one
    step_updated,       \* history: the latest iteration stepped the optimizer
    \* ---- data loader and _run_eval / predict ----
    task,               \* the task argument of relation_extraction_data_loader
    n_examples,         \* len(dataset)
    batch_size,
    sampler,            \* class of the loader's sampler ("none": no loader)
    order,              \* dataset indexes in the order an iteration yields them
    logits,             \* logits[i][k]: the model's logit of class k-1 on example i
    batch_no,           \* batches _run_eval has consumed
    np_preds,           \* the array preds accumulates (<<>> stands for None)
    preds,              \* what _run_eval returns as preds (-1: not yet)
    result,             \* what predict() returns
    \* ---- get_linear_schedule_with_warmup ----
    num_warmup_steps, num_training_steps,
    current_step,       \* LambdaLR's step counter
    lr_mult             \* lr_lambda(current_step) as <<numerator, denominator>>

truncVars == <<data_format_mode, line1, line2, text_a, text_b, max_seq_len>>
ampVars == <<cli_fp16, torch_ge_160, apex_installed, fp16, use_amp_from>>
trainArgs == <<gradient_accumulation_steps, num_train_epochs, batch_total_step, do_warmup>>
trainVars == <<epoch, step, grad, param, applied, sched_steps, window, step_updated>>
loaderVars == <<task, n_examples, batch_size, sampler, order>>
evalVars == <<logits, batch_no, np_preds, preds, result>>
schedVars == <<num_warmup_steps, num_training_steps, current_step, lr_mult>>
vars == <<pc, truncVars, ampVars, trainArgs, trainVars, loaderVars, evalVars, schedVars>>

\* ------------------------------------------------------------------ bounds
MaxCtx == 3         \* most ordinary words in a context outside a marked span
MaxSeqLen == 6      \* largest max_seq_len tried
MaxAccum == 3       \* largest gradient_accumulation_steps tried
MaxBatches == 3     \* largest number of batches in the train loader
MaxEpochs == 2      \* largest num_train_epochs tried
MaxExamples == 4    \* largest dataset handed to a data loader
MaxBatchSize == 2   \* largest batch size tried
MaxLabels == 3      \* largest number of relation labels
MaxTrainSteps == 5  \* largest num_training_steps tried
Overrun == 2        \* scheduler steps taken beyond num_training_steps

\* ------------------------------------------------------------ tokenizer
\* config.SPEC_TAGS: the fixed set of entity boundary markers.
SPEC_TAGS == {"[s1]", "[e1]", "[s2]", "[e2]"}

\* Number of tokens tokenizer.tokenize gives for one word: nothing for the
\* empty word, two word pieces for "long", one token for any other word
\* (the markers are added to the vocabulary as whole tokens).
WordTokens(w) == IF w = "" THEN 0 ELSE IF w = "long" THEN 2 ELSE 1

RECURSIVE Tokenize(_)
\* len(tokenizer.tokenize(text))
Tokenize(ws) == IF ws = <<>> THEN 0 ELSE WordTokens(Head(ws)) + Tokenize(Tail(ws))

\* ------------------------------------------------------------- helpers
Drop(ws, n) == SubSeq(ws, n + 1, Len(ws))

RECURSIVE ReSub(_)
\* re.sub("\[ \* \*|\* \* \]", "", text): leftmost non-overlapping matches
\* are deleted; the spaces around a match stay, so the three words of a
\* match leave one empty word.
ReSub(ws) ==
    IF ws = <<>> THEN <<>>
    ELSE IF Len(ws) >= 3 /\ SubSeq(ws, 1, 3) \in {<<"[", "*", "*">>, <<"*", "*", "]">>}
         THEN <<"">> \o ReSub(Drop(ws, 3))
         ELSE <<Head(ws)>> \o ReSub(Tail(ws))

\* w.lower(): of the words used here only the upper-case markers change
Lower(w) ==
    IF w = "[S1]" THEN "[s1]" ELSE IF w = "[E1]" THEN "[e1]" ELSE w

\* [idx for (idx, w) in enumerate(ws) if w.lower() in SPEC_TAGS], 1-based
TagIdx(ws) == {i \in 1..Len(ws) : Lower(ws[i]) \in SPEC_TAGS}

Min(S) == CHOOSE x \in S : \A y \in S : x <= y
Max(S) == CHOOSE x \in S : \A y \in S : y <= x

\* "t1, t2 = [...]" succeeds only on a list of exactly two indexes
Unpacks(ws) == Cardinality(TagIdx(ws)) = 2

\* a1 = t1 - ss1 with ss1 = 0 (t1 is 0-based in the code)
DistA(ws) == (Min(TagIdx(ws)) - 1) - 0
\* b1 = se1 - t2 with se1 = len(w1)
DistB(ws) == Len(ws) - (Max(TagIdx(ws)) - 1)

\* if a > b: w.pop(0) else: w.pop(-1)
PopOne(ws) ==
    IF DistA(ws) > DistB(ws) THEN Tail(ws) ELSE SubSeq(ws, 1, Len(ws) - 1)

\* " ".join(w) read back by split(" "): the empty list joins to "", whose
\* split is the one empty word
Join(ws) == IF ws = <<>> THEN <<"">> ELSE ws

\* --------------------------------------------------------------- inputs
Ordinary(n) == [i \in 1..n |-> "w"]

\* contexts outside a marked span: up to MaxCtx ordinary words, a
\* de-identification block "[ * * w * * ]" and a word of two word pieces
Contexts ==
    {Ordinary(n) : n \in 0..MaxCtx}
        \cup {<<"[", "*", "*", "w", "*", "*", "]">>, <<"long", "w">>}

Entities == {<<>>, <<"w">>}

\* a sentence with one marked entity span (the first sentence's markers
\* may be written in upper case)
Tagged(s, e) ==
    {pre \o <<s>> \o mid \o <<e>> \o post :
        pre \in Contexts, mid \in Entities, post \in Contexts}

Untagged == {c \in Contexts : c # <<>>}

SeqLens == 4..MaxSeqLen

\* ------------------------------------------ idle values of unused state
TruncIdle ==
    /\ data_format_mode = 0 /\ line1 = <<>> /\ line2 = <<>>
    /\ text_a = <<>> /\ text_b = <<>> /\ max_seq_len = 0

TrainIdle ==
    /\ cli_fp16 = FALSE /\ torch_ge_160 = FALSE /\ apex_installed = FALSE
    /\ fp16 = FALSE /\ use_amp_from = -1
    /\ gradient_accumulation_steps = 1 /\ num_train_epochs = 0
    /\ batch_total_step = 0 /\ do_warmup = FALSE
    /\ epoch = 0 /\ step = 0 /\ grad = 0 /\ param = 0 /\ applied = 0
    /\ sched_steps = 0 /\ window = <<>> /\ step_updated = FALSE

LoaderIdle ==
    /\ task = "" /\ n_examples = 0 /\ batch_size = 1
    /\ sampler = "none" /\ order = <<>>

EvalIdle ==
    /\ logits = <<>> /\ batch_no = 0 /\ np_preds = <<>>
    /\ preds = -1 /\ result = <<>>

SchedIdle ==
    /\ num_warmup_steps = 0 /\ num_training_steps = 0
    /\ current_step = 0 /\ lr_mult = <<0, 1>>

\* ------------------------------------------------- truncation (data_utils)
TruncInit ==
    /\ TrainIdle /\ LoaderIdle /\ EvalIdle /\ SchedIdle
    /\ pc = "create"
    /\ data_format_mode \in {0, 1}
    /\ line1 \in Tagged("[s1]", "[e1]") \cup Tagged("[S1]", "[E1]")
    /\ line2 \in IF data_format_mode = 0
                 THEN Tagged("[s2]", "[e2]")
                 ELSE Tagged("[s2]", "[e2]") \cup Untagged
    /\ max_seq_len \in SeqLens
    /\ text_a = <<>>
    /\ text_b = <<>>

\* RelationDataFormatSepProcessor._create_examples up to the entry of the
\* loop of _process_seq_len
SepCreate ==
    /\ pc = "create" /\ data_format_mode = 0
    /\ text_a' = ReSub(line1)
    /\ text_b' = ReSub(line2)
    /\ pc' = "loop"
    /\ UNCHANGED <<data_format_mode, line1, line2, max_seq_len>>
    /\ UNCHANGED <<ampVars, trainArgs, trainVars, loaderVars, evalVars, schedVars>>

SepOver == Tokenize(text_a) + Tokenize(text_b) > max_seq_len

\* one iteration of the while loop: both unpackings succeed, one word is
\* popped from each text
SepIterate ==
    /\ pc = "loop" /\ data_format_mode = 0 /\ SepOver
    /\ Unpacks(text_a) /\ Unpacks(text_b)
    /\ text_a' = Join(PopOne(text_a))
    /\ text_b' = Join(PopOne(text_b))
    /\ UNCHANGED <<pc, data_format_mode, line1, line2, max_seq_len>>
    /\ UNCHANGED <<ampVars, trainArgs, trainVars, loaderVars, evalVars, schedVars>>

\* the iteration whose "t1, t2 = ..." or "t3, t4 = ..." cannot unpack
SepRaise ==
    /\ pc = "loop" /\ data_format_mode = 0 /\ SepOver
    /\ ~(Unpacks(text_a) /\ Unpacks(text_b))
    /\ pc' = "ValueError"
    /\ UNCHANGED truncVars
    /\ UNCHANGED <<ampVars, trainArgs, trainVars, loaderVars, evalVars, schedVars>>

SepReturn ==
    /\ pc = "loop" /\ data_format_mode = 0 /\ ~SepOver
    /\ pc' = "returned"
    /\ UNCHANGED truncVars
    /\ UNCHANGED <<ampVars, trainArgs, trainVars, loaderVars, evalVars, schedVars>>

\* RelationDataFormatUniProcessor._create_examples: the two sentences are
\* joined with one space, text_b is None
UniCreate ==
    /\ pc = "create" /\ data_format_mode = 1
    /\ text_a' = ReSub(line1 \o line2)
    /\ text_b' = <<>>
    /\ pc' = "loop"
    /\ UNCHANGED <<data_format_mode, line1, line2, max_seq_len>>
    /\ UNCHANGED <<ampVars, trainArgs, trainVars, loaderVars, evalVars, schedVars>>

UniOver == Tokenize(text_a) > max_seq_len

UniIterate ==
    /\ pc = "loop" /\ data_format_mode = 1 /\ UniOver
    /\ Unpacks(text_a)
    /\ text_a' = Join(PopOne(text_a))
    /\ UNCHANGED <<pc, data_format_mode, line1, line2, text_b, max_seq_len>>
    /\ UNCHANGED <<ampVars, trainArgs, trainVars, loaderVars, evalVars, schedVars>>

UniRaise ==
    /\ pc = "loop" /\ data_format_mode = 1 /\ UniOver
    /\ ~Unpacks(text_a)
    /\ pc' = "ValueError"
    /\ UNCHANGED truncVars
    /\ UNCHANGED <<ampVars, trainArgs, trainVars, loaderVars, evalVars, schedVars>>

UniReturn ==
    /\ pc = "loop" /\ data_format_mode = 1 /\ ~UniOver
    /\ pc' = "returned"
    /\ UNCHANGED truncVars
    /\ UNCHANGED <<ampVars, trainArgs, trainVars, loaderVars, evalVars, schedVars>>

TruncNext ==
    \/ SepCreate \/ SepIterate \/ SepRaise \/ SepReturn
    \/ UniCreate \/ UniIterate \/ UniRaise \/ UniReturn

SpecTrunc == TruncInit /\ [][TruncNext]_vars

\* ------------------------------------------------ claims on the truncation
\* the marked span: the two markers and every word between them
Span(ws) == SubSeq(ws, Min(TagIdx(ws)), Max(TagIdx(ws)))
SpanKept(ws, orig) == Unpacks(ws) /\ Span(ws) = Span(orig)

OneTokenWords(ws) == \A i \in 1..Len(ws) : WordTokens(ws[i]) <= 1

\* the tokens of the input after the re.sub, as the loop first counts them
InputTokens ==
    IF data_format_mode = 0
    THEN Tokenize(ReSub(line1)) + Tokenize(ReSub(line2))
    ELSE Tokenize(ReSub(line1 \o line2))

\* C1: in the two-sequence format, whenever each text holds exactly two
\* markers, every text the truncation works on or returns still holds both
\* of its markers and every word between them.
C1_SepSpansPreserved ==
    (data_format_mode = 0 /\ pc # "create")
        => /\ SpanKept(text_a, ReSub(line1))
           /\ SpanKept(text_b, ReSub(line2))

\* C2: in the single-sequence format, an example with one marked span in
\* each sentence whose joined text is longer than max_seq_len is truncated
\* without raising, and the returned text holds all four markers.
C2_UniCompletes ==
    (/\ data_format_mode = 1
     /\ Cardinality(TagIdx(line1)) = 2 /\ Cardinality(TagIdx(line2)) = 2
     /\ InputTokens > max_seq_len)
        => /\ pc # "ValueError"
           /\ pc = "returned" => Cardinality(TagIdx(text_a)) = 4

\* C3: when an input longer than max_seq_len (every word one token at most)
\* is truncated and returned, the returned text(s) count exactly
\* max_seq_len tokens.
C3_ExactLength ==
    (/\ pc = "returned"
     /\ InputTokens > max_seq_len
     /\ OneTokenWords(line1) /\ OneTokenWords(line2))
        => Tokenize(text_a) + Tokenize(text_b) = max_seq_len

\* words before the first marker, words after the second marker
WordsBefore(ws) == Min(TagIdx(ws)) - 1
WordsAfter(ws) == Len(ws) - Max(TagIdx(ws))

LongerSideShortened(ws, next) ==
    /\ WordsBefore(ws) > WordsAfter(ws) => next = Tail(ws)
    /\ WordsAfter(ws) > WordsBefore(ws) => next = SubSeq(ws, 1, Len(ws) - 1)

\* C4: at every truncation iteration the longer outside context loses a
\* word: the first word when more words precede the first marker than
\* follow the second, the last word when more follow than precede.
C4_LongerSideShortened ==
    [][/\ text_a' # text_a /\ pc = "loop"
            => LongerSideShortened(text_a, text_a')
       /\ text_b' # text_b /\ pc = "loop"
            => LongerSideShortened(text_b, text_b')]_vars

\* ------------------------------------------- TaskRunner.__init__ and train
\* gradients of the unscaled batch loss: multiples of the accumulation
\* steps, so that "loss / gradient_accumulation_steps" stays an integer
GradUnits == {-1, 2}

TrainInit ==
    /\ TruncIdle /\ LoaderIdle /\ EvalIdle /\ SchedIdle
    /\ pc = "init"
    /\ cli_fp16 \in BOOLEAN
    /\ torch_ge_160 \in BOOLEAN
    /\ apex_installed \in BOOLEAN
    /\ fp16 = cli_fp16
    /\ use_amp_from = -1
    /\ gradient_accumulation_steps \in 1..MaxAccum
    /\ num_train_epochs \in 1..MaxEpochs
    /\ batch_total_step \in 1..MaxBatches
    /\ do_warmup \in BOOLEAN
    /\ epoch = 0 /\ step = 0 /\ grad = 0 /\ param = 0 /\ applied = 0
    /\ sched_steps = 0 /\ window = <<>> /\ step_updated = FALSE

\* _use_amp_for_fp16_from after "self._use_amp_for_fp16_from = 0" and the
\* call of _load_amp_for_fp16
LoadAmpFrom == IF torch_ge_160 THEN 1 ELSE IF apex_installed THEN 2 ELSE 0

\* args.fp16 after _load_amp_for_fp16: the finally clause of the apex
\* branch resets it whether or not the import succeeded
LoadAmpFp16 == IF torch_ge_160 THEN fp16 ELSE FALSE

\* TaskRunner.__init__ with do_train set; _load_amp_for_fp16 has no raise
\* statement (its except clause only logs), so the construction goes on
Construct ==
    /\ pc = "init"
    /\ IF fp16
       THEN /\ use_amp_from' = LoadAmpFrom
            /\ fp16' = LoadAmpFp16
       ELSE UNCHANGED <<use_amp_from, fp16>>
    /\ pc' = "ready"
    /\ UNCHANGED <<cli_fp16, torch_ge_160, apex_installed>>
    /\ UNCHANGED <<truncVars, trainArgs, trainVars, loaderVars, evalVars, schedVars>>

\* loss = loss / gradient_accumulation_steps, then backward(): the gradient
\* of the scaled loss
ScaledGrad(raw) == raw \div gradient_accumulation_steps

\* model.zero_grad() at the head of every iteration, then the backward()
\* of the branch taken adds the gradient of the scaled loss to the buffer
\* (the amp scaler's scaling is undone by unscale_ before the step); with
\* fp16 set and no amp loaded no branch calls backward()
BackwardGrad(raw) ==
    IF fp16 /\ use_amp_from \notin {1, 2} THEN 0 ELSE 0 + ScaledGrad(raw)

\* the update branch calls optimizer.step() (or amp_scaler.step)
OptimizerSteps == ~fp16 \/ use_amp_from \in {1, 2}

\* (step + 1) % gradient_accumulation_steps == 0 or (step + 1) == batch_total_step
UpdateDue ==
    \/ (step + 1) % gradient_accumulation_steps = 0
    \/ step + 1 = batch_total_step

\* the loop counters after one iteration
Advance ==
    IF step + 1 = batch_total_step
    THEN /\ epoch' = epoch + 1 /\ step' = 0
    ELSE /\ epoch' = epoch /\ step' = step + 1

InLoop == pc = "ready" /\ epoch < num_train_epochs

\* an iteration of the batch loop that only accumulates
TrainAccumulate ==
    /\ InLoop /\ ~UpdateDue
    /\ \E u \in GradUnits :
        LET raw == u * gradient_accumulation_steps IN
        /\ grad' = BackwardGrad(raw)
        /\ window' = (IF step_updated THEN <<>> ELSE window) \o <<ScaledGrad(raw)>>
    /\ step_updated' = FALSE
    /\ Advance
    /\ UNCHANGED <<param, applied, sched_steps>>
    /\ UNCHANGED <<truncVars, ampVars, trainArgs, pc, loaderVars, evalVars, schedVars>>

\* an iteration of the batch loop that ends with the optimizer step
TrainUpdate ==
    /\ InLoop /\ UpdateDue
    /\ \E u \in GradUnits :
        LET raw == u * gradient_accumulation_steps IN
        /\ grad' = BackwardGrad(raw)
        /\ window' = (IF step_updated THEN <<>> ELSE window) \o <<ScaledGrad(raw)>>
    /\ applied' = IF OptimizerSteps THEN grad' ELSE applied
    /\ param' = IF OptimizerSteps THEN param - grad' ELSE param
    /\ sched_steps' = IF do_warmup THEN sched_steps + 1 ELSE sched_steps
    /\ step_updated' = TRUE
    /\ Advance
    /\ UNCHANGED <<truncVars, ampVars, trainArgs, pc, loaderVars, evalVars, schedVars>>

\* the loops are over: _save_model()
SaveModel ==
    /\ pc = "ready" /\ epoch = num_train_epochs
    /\ pc' = "saved"
    /\ UNCHANGED <<truncVars, ampVars, trainArgs, trainVars, loaderVars, evalVars, schedVars>>

TrainNext == Construct \/ TrainAccumulate \/ TrainUpdate \/ SaveModel

SpecTrain == TrainInit /\ [][TrainNext]_vars

\* --------------------------------------------------- claims on training
RECURSIVE SumSeq(_)
SumSeq(q) == IF q = <<>> THEN 0 ELSE Head(q) + SumSeq(Tail(q))

\* C5: every optimizer update applies the sum of the gradients of the
\* scaled losses of all batches processed since the previous update.
C5_UpdateAppliesAccumulated == step_updated => applied = SumSeq(window)

\* C6: when fp16 is requested and neither native amp nor apex is available,
\* the construction raises RuntimeError instead of continuing.
C6_NoAmpRaises ==
    (cli_fp16 /\ ~torch_ge_160 /\ ~apex_installed /\ pc # "init")
        => pc = "RuntimeError"

\* ------------------------------------- relation_extraction_data_loader
Tasks == {"train", "test", "dev", "predict"}

LoaderInit ==
    /\ TruncIdle /\ TrainIdle /\ EvalIdle /\ SchedIdle
    /\ pc = "call"
    /\ task \in Tasks
    /\ n_examples \in 1..MaxExamples
    /\ batch_size \in 1..MaxBatchSize
    /\ sampler = "none"
    /\ order = <<>>

\* a plausible slip: the two samplers exchanged
SamplerForSwapped(t) ==
    IF t = "train" THEN "SequentialSampler"
    ELSE IF t = "test" THEN "RandomSampler"
    ELSE "ValueError"

\* the if / elif / else on task: the sampler class, or the exception raised
SamplerFor(t) ==
    IF t = "train" THEN "RandomSampler"
    ELSE IF t = "test" THEN "SequentialSampler"
    ELSE "ValueError"

Identity(n) == [i \in 1..n |-> i]

\* the index orders one iteration of a sampler of that class can yield
Orders(smp, n) ==
    IF smp = "RandomSampler"
    THEN {q \in [1..n -> 1..n] : \A i, j \in 1..n : q[i] = q[j] => i = j}
    ELSE {Identity(n)}

\* len(data_loader) and the b-th batch of an iteration (drop_last is off)
NumBatches(n, bs) == (n + bs - 1) \div bs
Batch(ord, bs, b) ==
    SubSeq(ord, (b - 1) * bs + 1, IF b * bs < Len(ord) THEN b * bs ELSE Len(ord))

\* the call returns a DataLoader over the dataset with the task's sampler
LoaderBuild ==
    /\ pc = "call" /\ SamplerFor(task) # "ValueError"
    /\ sampler' = SamplerFor(task)
    /\ pc' = "loader"
    /\ UNCHANGED <<task, n_examples, batch_size, order>>
    /\ UNCHANGED <<truncVars, ampVars, trainArgs, trainVars, evalVars, schedVars>>

\* the call raises ValueError: nothing is returned
LoaderRaise ==
    /\ pc = "call" /\ SamplerFor(task) = "ValueError"
    /\ pc' = "ValueError"
    /\ UNCHANGED loaderVars
    /\ UNCHANGED <<truncVars, ampVars, trainArgs, trainVars, evalVars, schedVars>>

\* one pass over the returned loader
LoaderIterate ==
    /\ pc \in {"loader", "iterated"}
    /\ order' \in Orders(sampler, n_examples)
    /\ pc' = "iterated"
    /\ UNCHANGED <<task, n_examples, batch_size, sampler>>
    /\ UNCHANGED <<truncVars, ampVars, trainArgs, trainVars, evalVars, schedVars>>

LoaderNext == LoaderBuild \/ LoaderRaise \/ LoaderIterate

SpecLoader == LoaderInit /\ [][LoaderNext]_vars

\* C8: task 'train' yields a loader with a RandomSampler, task 'test' a
\* loader with a SequentialSampler whose iteration keeps the input order,
\* and every other task raises ValueError and yields no loader.
C8_TwoTaskLevels ==
    pc # "call" =>
        /\ task = "train" => pc # "ValueError" /\ sampler = "RandomSampler"
        /\ task = "test" =>
            /\ pc # "ValueError" /\ sampler = "SequentialSampler"
            /\ pc = "iterated" => order = Identity(n_examples)
        /\ task \notin {"train", "test"} => pc = "ValueError" /\ sampler = "none"

\* a test loader of several examples has been iterated
C8_Witness ==
    /\ pc = "iterated" /\ task = "test" /\ n_examples >= 2
    /\ order = Identity(n_examples)

\* ------------------------------------------------- _run_eval and predict
LogitVals == {0, 1}

\* idx2label: the label of a class index
Idx2Label(k) == <<"label", k>>

NumLabels == Len(logits[1])

EvalInit ==
    /\ TruncIdle /\ TrainIdle /\ SchedIdle
    /\ pc = "eval"
    /\ task = "test"
    /\ n_examples \in 1..MaxExamples
    /\ batch_size \in 1..MaxBatchSize
    /\ sampler = SamplerFor("test")
    /\ order \in Orders(sampler, n_examples)
    /\ \E K \in 2..MaxLabels : logits \in [1..n_examples -> [1..K -> LogitVals]]
    /\ batch_no = 0 /\ np_preds = <<>> /\ preds = -1 /\ result = <<>>

\* one batch of the loop of _run_eval: the batch's logits are appended as
\* rows (np.append(preds, logits, axis=0))
RunEvalBatch ==
    /\ pc = "eval" /\ batch_no < NumBatches(n_examples, batch_size)
    /\ LET b == Batch(order, batch_size, batch_no + 1) IN
        np_preds' = np_preds \o [i \in 1..Len(b) |-> logits[b[i]]]
    /\ batch_no' = batch_no + 1
    /\ UNCHANGED <<logits, preds, result, pc>>
    /\ UNCHANGED <<truncVars, ampVars, trainArgs, trainVars, loaderVars, schedVars>>

RECURSIVE Flatten(_)
Flatten(rows) == IF rows = <<>> THEN <<>> ELSE Head(rows) \o Flatten(Tail(rows))

\* index (0-based) of the first largest entry
ArgmaxSeq(q) ==
    (CHOOSE i \in 1..Len(q) :
        /\ \A j \in 1..Len(q) : q[j] <= q[i]
        /\ \A j \in 1..(i - 1) : q[j] < q[i]) - 1

\* np.argmax(preds) with no axis: the index into the flattened array
NpArgmax(rows) == ArgmaxSeq(Flatten(rows))

\* the loop is over: preds = np.argmax(preds); return preds, temp_loss
RunEvalReturn ==
    /\ pc = "eval" /\ batch_no = NumBatches(n_examples, batch_size)
    /\ preds' = NpArgmax(np_preds)
    /\ pc' = "evaluated"
    /\ UNCHANGED <<logits, batch_no, np_preds, result>>
    /\ UNCHANGED <<truncVars, ampVars, trainArgs, trainVars, loaderVars, schedVars>>

\* predict(): "[self.idx2label[pred] for pred in preds]" iterates over
\* preds, which is one numpy integer: TypeError, nothing is returned
PredictConvert ==
    /\ pc = "evaluated"
    /\ pc' = "TypeError"
    /\ UNCHANGED evalVars
    /\ UNCHANGED <<truncVars, ampVars, trainArgs, trainVars, loaderVars, schedVars>>

EvalNext == RunEvalBatch \/ RunEvalReturn \/ PredictConvert

SpecEval == EvalInit /\ [][EvalNext]_vars

\* C7: predict() returns one label per test example, in dataset order, the
\* label of the class whose logit is largest for that example.
C7_PredictsEveryExample ==
    pc \in {"predicted", "TypeError"} =>
        /\ pc = "predicted"
        /\ result = [i \in 1..n_examples |-> Idx2Label(ArgmaxSeq(logits[i]))]

\* ------------------------------------- get_linear_schedule_with_warmup
Max2(a, b) == IF a >= b THEN a ELSE b

\* a plausible slip: the decay is not clamped at zero
LrLambdaUnclamped(s, W, T) ==
    IF s < W THEN <<s, Max2(1, W)>> ELSE <<T - s, Max2(1, T - W)>>

\* lr_lambda(current_step) as an exact fraction <<numerator, denominator>>
LrLambda(s, W, T) ==
    IF s < W
    THEN <<s, Max2(1, W)>>
    ELSE IF T - s < 0 THEN <<0, 1>> ELSE <<T - s, Max2(1, T - W)>>

SchedInit ==
    /\ TruncIdle /\ TrainIdle /\ LoaderIdle /\ EvalIdle
    /\ pc = "schedule"
    /\ num_training_steps \in 0..MaxTrainSteps
    /\ num_warmup_steps \in 0..num_training_steps
    /\ current_step = 0
    /\ lr_mult = LrLambda(0, num_warmup_steps, num_training_steps)

\* scheduler.step(): LambdaLR counts the step and evaluates lr_lambda
SchedulerStep ==
    /\ pc = "schedule"
    /\ current_step < num_training_steps + Overrun
    /\ current_step' = current_step + 1
    /\ lr_mult' = LrLambda(current_step + 1, num_warmup_steps, num_training_steps)
    /\ UNCHANGED <<pc, num_warmup_steps, num_training_steps>>
    /\ UNCHANGED <<truncVars, ampVars, trainArgs, trainVars, loaderVars, evalVars>>

SchedNext == SchedulerStep

SpecSched == SchedInit /\ [][SchedNext]_vars

RatLeq(a, b) == a[1] * b[2] <= b[1] * a[2]
RatEq(a, b) == a[1] * b[2] = b[1] * a[2]

\* C9: for 0 <= W <= T the multiplier at step s is s/max(1,W) below W and
\* max(0, (T-s)/max(1,T-W)) from W on; it lies in [0,1], does not decrease
\* below W, does not increase from W on, and is 0 from T on.
C9_LinearWarmup ==
    LET s == current_step
        W == num_warmup_steps
        T == num_training_steps
        nxt == LrLambda(s + 1, W, T)
    IN  /\ lr_mult[2] > 0
        /\ s < W => RatEq(lr_mult, <<s, Max2(1, W)>>)
        /\ s >= W /\ s <= T => RatEq(lr_mult, <<T - s, Max2(1, T - W)>>)
        /\ RatLeq(<<0, 1>>, lr_mult) /\ RatLeq(lr_mult, <<1, 1>>)
        /\ s + 1 < W => RatLeq(lr_mult, nxt)
        /\ s >= W => RatLeq(nxt, lr_mult)
        /\ s >= T => RatEq(lr_mult, <<0, 1>>)

\* the schedule has warmed up, decayed and run past num_training_steps
C9_Witness ==
    /\ pc = "schedule"
    /\ 2 <= num_warmup_steps /\ num_warmup_steps < num_training_steps
    /\ current_step > num_training_steps

====
